---- MODULE Spec2Model ----
(***************************************************************************)
(* A model of ps5.js: the groupBy utility and the page controller of the   *)
(* rhyme / synonym finder (request issue, response render, saved words).   *)
(*                                                                         *)
(* JavaScript values are modelled with their type: a number, a string (a   *)
(* sequence of one-character strings) or undefined, so that ToString,      *)
(* Map key equality (SameValueZero), Array.prototype.sort's default        *)
(* comparison and the property order of ordinary objects are computed as   *)
(* the language defines them and not as the identity.                      *)
(***************************************************************************)
EXTENDS Integers, Sequences, FiniteSets, TLC

VARIABLES
    \* ---- the groupBy call under study (SpecGroupBy) ----
    objects,            \* the array passed to groupBy
    property,           \* the key selector passed to groupBy
    result,             \* the object groupBy returned
    pc,                 \* "ready" before the call, "returned" after it, "page" in Spec
    \* ---- the page (Spec) ----
    wordInputValue,     \* wordInput.value
    outputDescription,  \* outputDescription.innerHTML
    wordOutput,         \* the child nodes of the #word_output element
    savedWords,         \* the child nodes of the #saved_words element
    wordList,           \* the array addToSavedWords pushes to
    groupedResult,      \* the (implicit) global rhymeHandler's callback assigns
    input,              \* the (implicit) global the click listener assigns
    inFlight,           \* requests fetch() has issued and not yet settled
    consoleErrors,      \* number of console.error calls
    \* ---- history, for stating the properties ----
    issued,             \* number of requests issued so far
    callbacks,          \* number of times a render callback was invoked
    savedClicks,        \* the words (span text) of the items whose save button was clicked
    lastResponse        \* the kind and emptiness of the response delivered last

vars == <<objects, property, result, pc, wordInputValue, outputDescription,
          wordOutput, savedWords, wordList, groupedResult, input, inFlight,
          consoleErrors, issued, callbacks, savedClicks, lastResponse>>

groupVars == <<objects, property, result, pc>>
pageVars == <<wordInputValue, outputDescription, wordOutput, savedWords, wordList,
              groupedResult, input, inFlight, consoleErrors, issued, callbacks,
              savedClicks, lastResponse>>

(***************************************************************************)
(* Bounds                                                                  *)
(***************************************************************************)
MaxObjects == 3     \* longest array given to groupBy in SpecGroupBy
MaxResults == 2     \* longest API response
MaxRequests == 2    \* requests issued in one behaviour
MaxSaved == 2       \* save clicks in one behaviour

(***************************************************************************)
(* JavaScript values and strings                                           *)
(***************************************************************************)
Digits == <<"0", "1", "2", "3", "4", "5", "6", "7", "8", "9">>
Letters == <<"a", "b", "c", "d", "e", "f", "g", "h", "i", "j", "k", "l", "m",
             "n", "o", "p", "q", "r", "s", "t", "u", "v", "w", "x", "y", "z">>

IndexOf(seq, c) == CHOOSE i \in 1..Len(seq) : seq[i] = c
IsDigit(c) == \E i \in 1..Len(Digits) : Digits[i] = c
IsLetter(c) == \E i \in 1..Len(Letters) : Letters[i] = c

\* The UTF-16 code unit of a character.
CodeUnit(c) ==
    IF IsDigit(c) THEN 47 + IndexOf(Digits, c)
    ELSE IF IsLetter(c) THEN 96 + IndexOf(Letters, c)
    ELSE CASE c = " " -> 32
           [] c = "&" -> 38
           [] c = "(" -> 40
           [] c = ")" -> 41
           [] c = "," -> 44
           [] c = ";" -> 59
           [] c = "<" -> 60
           [] c = ">" -> 62

Undefined == [type |-> "undefined", n |-> 0, s |-> <<>>]
Num(k) == [type |-> "number", n |-> k, s |-> <<>>]
Str(chars) == [type |-> "string", n |-> 0, s |-> chars]

RECURSIVE NumberToString(_)
\* Number::toString for a non-negative integer: its decimal digits.
NumberToString(k) ==
    IF k < 10 THEN <<Digits[k + 1]>>
    ELSE NumberToString(k \div 10) \o <<Digits[(k % 10) + 1]>>

\* ToString (the language's abstract operation) of a value.
ToStringJS(v) ==
    CASE v.type = "undefined" -> <<"u", "n", "d", "e", "f", "i", "n", "e", "d">>
      [] v.type = "number" -> NumberToString(v.n)
      [] v.type = "string" -> v.s

RECURSIVE StringLess(_, _)
\* x < y on strings: lexicographic on code units, a proper prefix is smaller.
StringLess(x, y) ==
    IF y = <<>> THEN FALSE
    ELSE IF x = <<>> THEN TRUE
    ELSE IF CodeUnit(Head(x)) # CodeUnit(Head(y))
         THEN CodeUnit(Head(x)) < CodeUnit(Head(y))
    ELSE StringLess(Tail(x), Tail(y))

\* SortCompare with no comparator: undefined sorts last, the rest by their strings.
SortCompare(x, y) ==
    IF x.type = "undefined" /\ y.type = "undefined" THEN 0
    ELSE IF x.type = "undefined" THEN 1
    ELSE IF y.type = "undefined" THEN -1
    ELSE IF StringLess(ToStringJS(x), ToStringJS(y)) THEN -1
    ELSE IF StringLess(ToStringJS(y), ToStringJS(x)) THEN 1
    ELSE 0

RECURSIVE InsertSorted(_, _)
InsertSorted(sorted, x) ==
    IF sorted = <<>> THEN <<x>>
    ELSE IF SortCompare(sorted[Len(sorted)], x) <= 0 THEN Append(sorted, x)
    ELSE Append(InsertSorted(SubSeq(sorted, 1, Len(sorted) - 1), x), sorted[Len(sorted)])

RECURSIVE ArraySort(_)
\* Array.prototype.sort(): a stable sort under SortCompare.
ArraySort(a) ==
    IF a = <<>> THEN <<>>
    ELSE InsertSorted(ArraySort(SubSeq(a, 1, Len(a) - 1)), a[Len(a)])

(***************************************************************************)
(* Objects: a record is a function from its field names to values, with a  *)
(* field "id" standing for the object's identity.                          *)
(***************************************************************************)
\* obj[name]: the field's value, undefined when the object has no such field.
Get(obj, name) == IF name \in DOMAIN obj THEN obj[name] ELSE Undefined

\* An array index: a canonical numeric string ("0", or digits with no leading zero).
IsArrayIndex(key) ==
    /\ key # <<>>
    /\ \A i \in 1..Len(key) : IsDigit(key[i])
    /\ (Len(key) > 1 => key[1] # "0")

RECURSIVE StringToNumber(_)
StringToNumber(key) ==
    IF key = <<>> THEN 0
    ELSE 10 * StringToNumber(SubSeq(key, 1, Len(key) - 1))
         + (IndexOf(Digits, key[Len(key)]) - 1)

\* An ordinary object is the sequence of its properties in creation order.
HasProperty(obj, key) == \E i \in 1..Len(obj) : obj[i].key = key
GetProperty(obj, key) == obj[IndexOf([i \in 1..Len(obj) |-> obj[i].key], key)].value

\* obj[key] = value: an existing property keeps its place, a new one goes last.
SetProperty(obj, key, value) ==
    IF HasProperty(obj, key)
    THEN [i \in 1..Len(obj) |->
            IF obj[i].key = key THEN [key |-> key, value |-> value] ELSE obj[i]]
    ELSE Append(obj, [key |-> key, value |-> value])

RECURSIVE SelectKeys(_, _)
SelectKeys(obj, wantIndex) ==
    IF obj = <<>> THEN <<>>
    ELSE IF IsArrayIndex(Head(obj).key) = wantIndex
         THEN <<Head(obj).key>> \o SelectKeys(Tail(obj), wantIndex)
    ELSE SelectKeys(Tail(obj), wantIndex)

RECURSIVE InsertNumeric(_, _)
InsertNumeric(sorted, key) ==
    IF sorted = <<>> THEN <<key>>
    ELSE IF StringToNumber(sorted[Len(sorted)]) <= StringToNumber(key)
         THEN Append(sorted, key)
    ELSE Append(InsertNumeric(SubSeq(sorted, 1, Len(sorted) - 1), key), sorted[Len(sorted)])

RECURSIVE NumericOrder(_)
NumericOrder(keys) ==
    IF keys = <<>> THEN <<>>
    ELSE InsertNumeric(NumericOrder(SubSeq(keys, 1, Len(keys) - 1)), keys[Len(keys)])

\* Object.keys / for-in order of an ordinary object: the array-index keys in
\* ascending numeric order, then the other string keys in creation order.
ObjectKeys(obj) == NumericOrder(SelectKeys(obj, TRUE)) \o SelectKeys(obj, FALSE)

(***************************************************************************)
(* groupBy                                                                 *)
(***************************************************************************)
\* A Map is the sequence of its entries in insertion order; keys are compared
\* by SameValueZero, which tells a number from the string of that number.
MapHas(map, key) == \E i \in 1..Len(map) : map[i].key = key
MapGet(map, key) == map[IndexOf([i \in 1..Len(map) |-> map[i].key], key)].value
MapSet(map, key, value) ==
    IF MapHas(map, key)
    THEN [i \in 1..Len(map) |->
            IF map[i].key = key THEN [key |-> key, value |-> value] ELSE map[i]]
    ELSE Append(map, [key |-> key, value |-> value])
MapKeys(map) == [i \in 1..Len(map) |-> map[i].key]

\* The property argument: a field name (a string) or a function of a record.
FieldSelector(name) == [kind |-> "string", name |-> name, fn |-> <<>>]
FunctionSelector(f) == [kind |-> "function", name |-> "", fn |-> f]

\* groupedObjects.get(groupName).push(object), reversed: the bug of a prepend.
PushToGroupFront(map, groupName, object) ==
    MapSet(map, groupName, <<object>> \o MapGet(map, groupName))

\* groupedObjects.get(groupName).push(object)
PushToGroup(map, groupName, object) ==
    MapSet(map, groupName, Append(MapGet(map, groupName), object))

\* A field selector that stringifies what it reads: a bug of the name branch.
PropertyFunctionStringified(prop, obj) ==
    IF prop.kind # "function"
    THEN Str(ToStringJS(Get(obj, prop.name)))
    ELSE prop.fn[obj]

\* The key selector as a function: a field name becomes obj => obj[propName].
PropertyFunction(prop, obj) ==
    IF prop.kind # "function"
    THEN Get(obj, prop.name)
    ELSE prop.fn[obj]

RECURSIVE GroupLoop(_, _, _, _)
\* for (const object of objects) { ... } from the i-th element on.
GroupLoop(objs, prop, i, map) ==
    IF i > Len(objs) THEN map
    ELSE LET object == objs[i]
             groupName == PropertyFunction(prop, object)
             ensured == IF MapHas(map, groupName) THEN map
                        ELSE MapSet(map, groupName, <<>>)
         IN GroupLoop(objs, prop, i + 1, PushToGroup(ensured, groupName, object))

RECURSIVE BuildResult(_, _, _, _)
\* for (const key of sortedKeys) { result[key] = groupedObjects.get(key); }
BuildResult(keys, map, i, res) ==
    IF i > Len(keys) THEN res
    ELSE BuildResult(keys, map, i + 1,
                     SetProperty(res, ToStringJS(keys[i]), MapGet(map, keys[i])))

\* A groupBy that consumes its input array (objects.shift() in the loop).
groupByRunShifting(objs, prop) ==
    LET groupedObjects == GroupLoop(objs, prop, 1, <<>>)
    IN [objects |-> <<>>,
        result |-> BuildResult(ArraySort(MapKeys(groupedObjects)), groupedObjects, 1, <<>>)]

\* One run of groupBy: the array it was given as the call leaves it, and the
\* object it returns.
groupByRun(objs, prop) ==
    LET groupedObjects == GroupLoop(objs, prop, 1, <<>>)
    IN [objects |-> objs,
        result |-> BuildResult(ArraySort(MapKeys(groupedObjects)), groupedObjects, 1, <<>>)]

groupBy(objs, prop) == groupByRun(objs, prop).result

(***************************************************************************)
(* The page after the script has run (lines 40-49, 108, 185-200): nothing  *)
(* requested, nothing rendered, nothing saved.                             *)
(***************************************************************************)
NoResponse == [kind |-> "none", empty |-> FALSE]

PageInit ==
    /\ wordInputValue = <<>>
    /\ outputDescription = [kind |-> "none", word |-> <<>>]
    /\ wordOutput = <<>>
    /\ savedWords = <<>>
    /\ wordList = <<>>
    /\ groupedResult = <<>>
    /\ input = Undefined
    /\ inFlight = {}
    /\ consoleErrors = 0
    /\ issued = 0
    /\ callbacks = 0
    /\ savedClicks = <<>>
    /\ lastResponse = NoResponse

(***************************************************************************)
(* The page: DOM nodes, requests, handlers                                 *)
(***************************************************************************)
\* A child node of #word_output. For an li, text is the text of its span and
\* btnClass the className of its button; req (history) is the request whose
\* callback created the node.
Node(tag, text, btnClass, req) ==
    [tag |-> tag, text |-> text, btnClass |-> btnClass, req |-> req]

NoResults == <<"(", "n", "o", " ", "r", "e", "s", "u", "l", "t", "s", ")">>
SyllablesPrefix == <<"S", "y", "l", "l", "a", "b", "l", "e", "s", ":", " ">>

\* element.value = text on the #word_output element: the element shows text.
SetValue(children, text, req) == <<Node("#text", text, "", req)>>

RECURSIVE EscapeHTML(_)
\* The innerHTML of an element whose only child is a text node: the text with
\* & < > written as character references.
EscapeHTML(text) ==
    IF text = <<>> THEN <<>>
    ELSE (CASE Head(text) = "&" -> <<"&", "a", "m", "p", ";">>
            [] Head(text) = "<" -> <<"&", "l", "t", ";">>
            [] Head(text) = ">" -> <<"&", "g", "t", ";">>
            [] OTHER -> <<Head(text)>>) \o EscapeHTML(Tail(text))

RECURSIVE Join(_)
\* Array.prototype.toString(): the elements joined by commas.
Join(list) ==
    IF list = <<>> THEN <<>>
    ELSE IF Len(list) = 1 THEN list[1]
    ELSE list[1] \o <<",">> \o Join(Tail(list))

\* The li of one result: a span with the word and a button of class save.
ListItem(record, req) == Node("li", ToStringJS(Get(record, "word")), "save", req)

ListItems(records, req) == [j \in 1..Len(records) |-> ListItem(records[j], req)]

RECURSIVE RenderGroups(_, _, _, _)
\* for (let group in groupedResult) { h3; for (let item in wordGroup) { li } }
RenderGroups(grouped, keys, i, req) ==
    IF i > Len(keys) THEN <<>>
    ELSE LET wordGroup == GetProperty(grouped, keys[i])
             groupHeader == Node("h3",
                                 SyllablesPrefix
                                    \o ToStringJS(Get(wordGroup[1], "numSyllables")),
                                 "", req)
         IN <<groupHeader>> \o ListItems(wordGroup, req)
                \o RenderGroups(grouped, keys, i + 1, req)

\* A rhyme callback that renders nothing for an empty response.
RhymeCallbackSilent(children, data, req) ==
    LET grouped == groupBy(data, FieldSelector("numSyllables"))
    IN children \o RenderGroups(grouped, ObjectKeys(grouped), 1, req)

\* The callback rhymeHandler passes: the children of #word_output after it.
RhymeCallback(children, data, req) ==
    LET grouped == groupBy(data, FieldSelector("numSyllables"))
    IN IF Len(ObjectKeys(grouped)) = 0
       THEN SetValue(children, NoResults, req)
       ELSE children \o RenderGroups(grouped, ObjectKeys(grouped), 1, req)

\* The callback synonymHandler passes: the children of #word_output after it.
SynonymCallback(children, data, req) ==
    IF Len(data) = 0
    THEN SetValue(children, NoResults, req)
    ELSE children \o ListItems(data, req)

\* A datamuseRequest that fetches twice.
datamuseRequestTwice(requests, id, kind) ==
    requests \cup {[id |-> id, kind |-> kind], [id |-> id + MaxRequests + 1, kind |-> kind]}

\* datamuseRequest(url, callback): fetch(url) is issued and its promise chain
\* is pending. kind names the endpoint of the url (rel_rhy or ml) and with it
\* the callback; the word of the url decides nothing in the script.
datamuseRequest(requests, id, kind) ==
    requests \cup {[id |-> id, kind |-> kind]}

\* The user edits the word input.
QueryWords == {<<>>, <<"a">>}

InputChange ==
    /\ pc = "page"
    /\ \E w \in QueryWords :
          /\ w # wordInputValue
          /\ wordInputValue' = w
    /\ UNCHANGED <<groupVars, outputDescription, wordOutput, savedWords, wordList,
                   groupedResult, input, inFlight, consoleErrors, issued, callbacks,
                   savedClicks, lastResponse>>

\* rhymeHandler()
rhymeHandler ==
    /\ issued < MaxRequests
    /\ outputDescription' = [kind |-> "rhyme", word |-> wordInputValue]
    /\ inFlight' = datamuseRequest(inFlight, issued + 1, "rhyme")
    /\ issued' = issued + 1
    /\ wordOutput' = <<>>
    /\ UNCHANGED <<groupVars, wordInputValue, savedWords, wordList, groupedResult,
                   input, consoleErrors, callbacks, savedClicks, lastResponse>>

\* synonymHandler()
synonymHandler ==
    /\ issued < MaxRequests
    /\ outputDescription' = [kind |-> "synonym", word |-> wordInputValue]
    /\ inFlight' = datamuseRequest(inFlight, issued + 1, "synonym")
    /\ issued' = issued + 1
    /\ wordOutput' = <<>>
    /\ UNCHANGED <<groupVars, wordInputValue, savedWords, wordList, groupedResult,
                   input, consoleErrors, callbacks, savedClicks, lastResponse>>

\* click on #show_rhymes
ClickShowRhymes ==
    /\ pc = "page"
    /\ rhymeHandler

\* click on #show_synonyms
ClickShowSynonyms ==
    /\ pc = "page"
    /\ synonymHandler

\* keydown in #word_input with the Enter key
KeyDownEnter ==
    /\ pc = "page"
    /\ rhymeHandler

\* keydown in #word_input with any other key: the listener does nothing
KeyDownOther ==
    /\ pc = "page"
    /\ UNCHANGED vars

\* The records the API answers with: a word and its number of syllables (the
\* field id stands for the object's identity).
ApiRecords ==
    <<("id" :> 1) @@ ("word" :> Str(<<"a">>)) @@ ("numSyllables" :> Num(10)),
      ("id" :> 2) @@ ("word" :> Str(<<"r", "&", "b">>)) @@ ("numSyllables" :> Num(2)),
      ("id" :> 3) @@ ("word" :> Str(<<"a">>)) @@ ("numSyllables" :> Num(2))>>

\* The responses: the empty one and every run of at most MaxResults
\* consecutive records.
Responses ==
    {<<>>} \cup {r \in {SubSeq(ApiRecords, i, j) : i, j \in 1..Len(ApiRecords)} :
                    Len(r) <= MaxResults}

\* A rejection handler that renders an empty response.
FetchRejectedRenders ==
    /\ pc = "page"
    /\ \E req \in inFlight : \E reason \in {"network", "parse"} :
          /\ inFlight' = inFlight \ {req}
          /\ consoleErrors' = consoleErrors + 1
          /\ wordOutput' = SetValue(wordOutput, NoResults, req.id)
    /\ UNCHANGED <<groupVars, wordInputValue, outputDescription, savedWords,
                   wordList, groupedResult, input, issued, callbacks, savedClicks,
                   lastResponse>>

\* fetch(url) or response.json() rejects: (err) => { console.error(err); }
FetchRejected ==
    /\ pc = "page"
    /\ \E req \in inFlight : \E reason \in {"network", "parse"} :
          /\ inFlight' = inFlight \ {req}
          /\ consoleErrors' = consoleErrors + 1
    /\ UNCHANGED <<groupVars, wordInputValue, outputDescription, wordOutput,
                   savedWords, wordList, groupedResult, input, issued, callbacks,
                   savedClicks, lastResponse>>

\* The response arrived and parsed: (data) => { callback(data); }
FetchFulfilled ==
    /\ pc = "page"
    /\ \E req \in inFlight : \E data \in Responses :
          /\ inFlight' = inFlight \ {req}
          /\ callbacks' = callbacks + 1
          /\ IF req.kind = "rhyme"
             THEN /\ groupedResult' = groupBy(data, FieldSelector("numSyllables"))
                  /\ wordOutput' = RhymeCallback(wordOutput, data, req.id)
             ELSE /\ groupedResult' = groupedResult
                  /\ wordOutput' = SynonymCallback(wordOutput, data, req.id)
          /\ lastResponse' = [kind |-> req.kind, empty |-> Len(data) = 0]
    /\ UNCHANGED <<groupVars, wordInputValue, outputDescription, savedWords,
                   wordList, input, consoleErrors, issued, savedClicks>>

\* The elements of #word_output a click can land on: the element itself (or a
\* text node of it), an h3, an li, and the span and the button of an li.
ClickTargets ==
    {<<0, "container">>}
        \cup {<<i, "h3">> : i \in {k \in 1..Len(wordOutput) : wordOutput[k].tag = "h3"}}
        \cup {<<i, part>> : i \in {k \in 1..Len(wordOutput) : wordOutput[k].tag = "li"},
                            part \in {"li", "span", "button"}}

\* e.target.className; the script sets a class on the buttons only.
ClassName(target) ==
    IF target[2] = "button" THEN wordOutput[target[1]].btnClass ELSE ""

\* addToSavedWords(word)
addToSavedWords(word) ==
    /\ wordList' = Append(wordList, word)
    /\ savedWords' = <<Join(wordList')>>

\* click inside #word_output
ClickWordOutput ==
    /\ pc = "page"
    /\ \E target \in ClickTargets :
          IF ClassName(target) = "save"
          THEN /\ Len(savedClicks) < MaxSaved
               /\ input' = Str(EscapeHTML(wordOutput[target[1]].text))
               /\ addToSavedWords(input'.s)
               /\ savedClicks' = Append(savedClicks, wordOutput[target[1]].text)
          ELSE UNCHANGED <<input, wordList, savedWords, savedClicks>>
    /\ UNCHANGED <<groupVars, wordInputValue, outputDescription, wordOutput,
                   groupedResult, inFlight, consoleErrors, issued, callbacks,
                   lastResponse>>

Init ==
    /\ objects = <<>>
    /\ property = FieldSelector("numSyllables")
    /\ result = <<>>
    /\ pc = "page"
    /\ PageInit

Next ==
    \/ InputChange
    \/ ClickShowRhymes
    \/ ClickShowSynonyms
    \/ KeyDownEnter
    \/ KeyDownOther
    \/ FetchFulfilled
    \/ FetchRejected
    \/ ClickWordOutput

Spec == Init /\ [][Next]_vars

(***************************************************************************)
(* SpecGroupBy: groupBy applied once to every bounded input.               *)
(***************************************************************************)
Range(seq) == {seq[i] : i \in 1..Len(seq)}

\* The values a record's field t takes: numbers, strings (among them the string
\* of a number and the string "undefined") and undefined itself.
KeyValues ==
    {Num(2), Num(10), Str(<<"2">>), Str(<<"a">>), Str(<<"b">>),
     Str(<<"u", "n", "d", "e", "f", "i", "n", "e", "d">>), Undefined}

\* The records at position i of an input: field t set to a value, or absent.
RecordsAt(i) ==
    {("id" :> i) @@ ("t" :> v) : v \in KeyValues} \cup {("id" :> i)}

InputArrays ==
    UNION {{a \in [1..len -> UNION {RecordsAt(i) : i \in 1..len}] :
                \A i \in 1..len : a[i] \in RecordsAt(i)} : len \in 0..MaxObjects}

\* Key selectors: the field names t (read above) and u (on no record), and the
\* functions obj => obj.t, obj => String(obj.t) and obj => obj.id % 2.
Selectors(objs) ==
    {FieldSelector("t"), FieldSelector("u"),
     FunctionSelector([o \in Range(objs) |-> Get(o, "t")]),
     FunctionSelector([o \in Range(objs) |-> Str(ToStringJS(Get(o, "t")))]),
     FunctionSelector([o \in Range(objs) |-> Num(o["id"] % 2)])}

GroupByInit ==
    /\ objects \in InputArrays
    /\ property \in Selectors(objects)
    /\ result = <<>>
    /\ pc = "ready"
    /\ PageInit

\* result = groupBy(objects, property)
GroupByCall ==
    /\ pc = "ready"
    /\ LET run == groupByRun(objects, property)
       IN /\ objects' = run.objects
          /\ result' = run.result
    /\ pc' = "returned"
    /\ UNCHANGED <<property, pageVars>>

NextGroupBy == GroupByCall

SpecGroupBy == GroupByInit /\ [][NextGroupBy]_vars

(***************************************************************************)
(* Properties of groupBy (checked under SpecGroupBy)                       *)
(***************************************************************************)
\* The places (group, position) of the returned object that hold a record.
PlacesOf(res, object) ==
    {<<g, j>> \in (1..Len(res)) \X (1..MaxObjects + 1) :
        j <= Len(res[g].value) /\ res[g].value[j] = object}

GroupSizes(res) == [g \in 1..Len(res) |-> Len(res[g].value)]

RECURSIVE SumSeq(_)
SumSeq(seq) == IF seq = <<>> THEN 0 ELSE Head(seq) + SumSeq(Tail(seq))

\* C1: groupBy partitions its input: every input record is in exactly one
\* group of the returned object, exactly once, and the groups together hold as
\* many records as the input, whatever the types of the key values.
C1_Partition ==
    pc = "returned" =>
        /\ \A i \in 1..Len(objects) : Cardinality(PlacesOf(result, objects[i])) = 1
        /\ SumSeq(GroupSizes(result)) = Len(objects)

\* C2: the keys of the returned object are enumerated in ascending order of
\* their strings under the default (code unit, lexicographic) comparison.
C2_KeysAscending ==
    pc = "returned" =>
        LET keys == ObjectKeys(result)
        IN \A i, j \in 1..Len(keys) : i < j => StringLess(keys[i], keys[j])

\* C3: within every group of the returned object the records are in the
\* relative order they have in the input (the partition is stable).
C3_Stable ==
    pc = "returned" =>
        \A g \in 1..Len(result) :
            \A a, b \in 1..Len(result[g].value) :
                a < b => IndexOf(objects, result[g].value[a])
                            < IndexOf(objects, result[g].value[b])

\* A call returned a group of two records that are not neighbours in the input.
C3_Witness ==
    /\ pc = "returned"
    /\ \E g \in 1..Len(result) :
          /\ Len(result[g].value) = 2
          /\ IndexOf(objects, result[g].value[2])
                > IndexOf(objects, result[g].value[1]) + 1

\* Every record has the field, and the function selector g returns r.f for it.
AgreesWithField(objs, prop, name) ==
    /\ prop.kind = "function"
    /\ \A i \in 1..Len(objs) :
          /\ name \in DOMAIN objs[i]
          /\ prop.fn[objs[i]] = objs[i][name]

\* C4: on records that carry a field f, grouping by a function g with
\* g(r) = r.f returns what grouping by the field name f returns: the same keys
\* in the same order with the same groups.
C4_FunctionEqualsField ==
    (pc = "returned" /\ AgreesWithField(objects, property, "t")) =>
        /\ result = groupBy(objects, FieldSelector("t"))
        /\ ObjectKeys(result) = ObjectKeys(groupBy(objects, FieldSelector("t")))

\* groupBy ran with obj => String(obj.t) on records whose t are all strings, of
\* two kinds, so the function agrees with the field without being defined as it.
C4_Witness ==
    /\ pc = "returned"
    /\ AgreesWithField(objects, property, "t")
    /\ property.fn = [o \in Range(objects) |-> Str(ToStringJS(Get(o, "t")))]
    /\ Len(objects) >= 2
    /\ Len(result) >= 2

\* C5: a call of groupBy leaves the array it was given as it was (length,
\* records, order, field values) and changes nothing of the page.
C5_NoSideEffects ==
    [][(pc = "ready" /\ pc' = "returned") =>
            (objects' = objects /\ UNCHANGED pageVars)]_vars

\* groupBy returned two groups or more for an input of two records or more.
C5_Witness ==
    /\ pc = "returned"
    /\ Len(objects) >= 2
    /\ Len(result) >= 2

(***************************************************************************)
(* Properties of the page (checked under Spec)                             *)
(***************************************************************************)
ShowsNoResults(children) ==
    /\ Len(children) = 1
    /\ children[1].tag = "#text"
    /\ children[1].text = NoResults

C7_FailureOnlyLogged ==
    [][consoleErrors' # consoleErrors =>
            /\ consoleErrors' = consoleErrors + 1
            /\ UNCHANGED <<callbacks, outputDescription, wordOutput, savedWords,
                           wordList>>]_vars

\* A request failed while results of another request and a saved word were on
\* the page.
C7_Witness ==
    /\ consoleErrors >= 1
    /\ callbacks >= 1
    /\ wordOutput # <<>>
    /\ wordList # <<>>

\* C8 as claimed: at most one request is in flight at any moment.
C8_AtMostOneInFlight == Cardinality(inFlight) <= 1

\* C8 as amended: one user action issues at most one request, so it raises the
\* number of requests in flight by at most one; that number is bounded by the
\* number of requests issued and not by one.
C8_OneRequestPerAction ==
    [][/\ issued' <= issued + 1
       /\ Cardinality(inFlight') <= Cardinality(inFlight) + 1
       /\ (issued' = issued => Cardinality(inFlight') <= Cardinality(inFlight))
       /\ Cardinality(inFlight') <= issued']_vars

\* Two user actions have each issued a request and both are in flight.
C8_Witness ==
    /\ issued = 2
    /\ Cardinality(inFlight) = 2

\* C9: the items the output list shows were rendered from the response of at
\* most one request: results of an earlier request are never on display
\* together with results of a later one.
C9_OneRequestShown ==
    Cardinality({wordOutput[i].req :
                    i \in {k \in 1..Len(wordOutput) : wordOutput[k].tag = "li"}}) <= 1

\* C10: the saved-words list is the sequence of the words of the items whose
\* save button was clicked, in click order, duplicates kept.
C10_SavedAreClickedWords == wordList = savedClicks

====
